---------------------------- MODULE Spec2Model ----------------------------
(***************************************************************************)
(* Speech-to-speech translator: the translation cache of NLLBTranslator   *)
(* (model.py), the session pipeline of AudioProcessor, the sessions that  *)
(* share the one processor, and GlobalTranslator.get_instance (app.py).   *)
(*                                                                         *)
(* Every Python str is a sequence of one-character strings, so that       *)
(* strip(), lower() and the f-string concatenation of the cache key are   *)
(* computed rather than assumed.                                           *)
(***************************************************************************)
EXTENDS Naturals, Sequences, FiniteSets, TLC

(***************************************************************************)
(* Bounds.  cache_size is 500 and max_history_items is 10 in the program; *)
(* both are scaled down here so that eviction happens within the bounds.  *)
(***************************************************************************)
cache_size == 2

max_history_items == 2

\* Temporary files one run may create (tempfile names are never reused here).
MaxFiles == 3

\* Requests the two sessions make between them.
MaxSessionRequests == 2

\* Threads that call GlobalTranslator.get_instance.
MaxCallers == 3

\* Requests made between direct change_languages calls.
MaxLangRequests == 2

\* Threads that call translate_text at the same time.
MaxThreads == 2

(***************************************************************************)
(* Language names (model.py:41-45, 89-94, 137-143).                       *)
(***************************************************************************)
english == <<"e","n","g","l","i","s","h">>

hindi == <<"h","i","n","d","i">>

bengali == <<"b","e","n","g","a","l","i">>

tamil == <<"t","a","m","i","l">>

telugu == <<"t","e","l","u","g","u">>

marathi == <<"m","a","r","a","t","h","i">>

gujarati == <<"g","u","j","a","r","a","t","i">>

kannada == <<"k","a","n","n","a","d","a">>

malayalam == <<"m","a","l","a","y","a","l","a","m">>

punjabi == <<"p","u","n","j","a","b","i">>

odia == <<"o","d","i","a">>

assamese == <<"a","s","s","a","m","e","s","e">>

urdu == <<"u","r","d","u">>

\* Names a caller may pass that are not keys of the maps as written.
English == <<"E","n","g","l","i","s","h">>

Hindi == <<"H","i","n","d","i">>

klingon == <<"k","l","i","n","g","o","n">>

urd == <<"u","r","d">>

(***************************************************************************)
(* str.strip() and str.lower() over the characters the model uses.        *)
(***************************************************************************)
IsSpace(c) == c = " "

RECURSIVE LStrip(_)
LStrip(s) ==
    IF s = <<>> THEN <<>>
    ELSE IF IsSpace(Head(s)) THEN LStrip(Tail(s)) ELSE s

RECURSIVE RStrip(_)
RStrip(s) ==
    IF s = <<>> THEN <<>>
    ELSE IF IsSpace(s[Len(s)]) THEN RStrip(SubSeq(s, 1, Len(s) - 1)) ELSE s

Strip(s) == RStrip(LStrip(s))

\* str.lower() of one character: the sharp s has no lower-case change.
LowerChar(c) ==
    CASE c = "A" -> "a"
      [] c = "E" -> "e"
      [] c = "H" -> "h"
      [] c = "S" -> "s"
      [] OTHER -> c

Lower(s) == [i \in 1..Len(s) |-> LowerChar(s[i])]

(***************************************************************************)
(* NLLBTranslator.translate_text (model.py:81-118).                       *)
(***************************************************************************)
\* lang_map.get(name.lower(), default)
NllbCode(name) ==
    CASE name = english -> "eng_Latn"
      [] name = hindi -> "hin_Deva"
      [] name = bengali -> "ben_Beng"
      [] name = tamil -> "tam_Taml"
      [] name = telugu -> "tel_Telu"
      [] name = marathi -> "mar_Deva"
      [] name = gujarati -> "guj_Gujr"
      [] name = kannada -> "kan_Knda"
      [] name = malayalam -> "mal_Mlym"
      [] name = punjabi -> "pan_Guru"
      [] name = odia -> "ory_Orya"
      [] name = assamese -> "asm_Beng"
      [] name = urdu -> "urd_Arab"
      [] OTHER -> "none"

SrcCode_NoDefault(source_lang) == NllbCode(Lower(source_lang))

\* src_code = lang_map.get(source_lang.lower(), 'eng_Latn')
SrcCode(source_lang) ==
    IF NllbCode(Lower(source_lang)) = "none" THEN "eng_Latn"
    ELSE NllbCode(Lower(source_lang))

\* tgt_code = lang_map.get(target_lang.lower(), 'hin_Deva')
TgtCode(target_lang) ==
    IF NllbCode(Lower(target_lang)) = "none" THEN "hin_Deva"
    ELSE NllbCode(Lower(target_lang))

\* The translation model as a deterministic function of the tokenised text, the
\* tokenizer's source code and the forced target code: the text tagged with both.
Generate(text, src_code, tgt_code) == <<src_code, tgt_code>> \o text

CacheKey_NoLower(text, source_lang, target_lang) ==
    source_lang \o target_lang \o Strip(text)

\* cache_key = f"{source_lang}{target_lang}{text.strip().lower()}"
CacheKey(text, source_lang, target_lang) ==
    source_lang \o target_lang \o Lower(Strip(text))

\* The cache is an OrderedDict: a sequence of entries in insertion order.
CacheKeys(cache) == [i \in 1..Len(cache) |-> cache[i].k]

CacheHas(cache, key) == \E i \in 1..Len(cache) : cache[i].k = key

CacheGet(cache, key) ==
    cache[CHOOSE i \in 1..Len(cache) : cache[i].k = key].v

CacheHit_MoveToEnd(cache, key) ==
    LET i == CHOOSE j \in 1..Len(cache) : cache[j].k = key
    IN  SubSeq(cache, 1, i - 1) \o SubSeq(cache, i + 1, Len(cache)) \o <<cache[i]>>

\* A hit reads self.translation_cache[cache_key]; the OrderedDict is left as it is.
CacheHit(cache, key) == cache

\* self.translation_cache[cache_key] = translated_text
CachePut(cache, key, value) ==
    IF CacheHas(cache, key)
    THEN [i \in 1..Len(cache) |->
            IF cache[i].k = key THEN [k |-> key, v |-> value] ELSE cache[i]]
    ELSE Append(cache, [k |-> key, v |-> value])

CacheEvict_Never(cache) == cache

\* if len(cache) > cache_size: cache.popitem(last=False)
CacheEvict(cache) ==
    IF Len(cache) > cache_size THEN Tail(cache) ELSE cache

TranslateText_NoFastPath(cache, text, source_lang, target_lang, gen_ok) ==
    LET key == CacheKey(text, source_lang, target_lang)
        out == Generate(text, SrcCode(source_lang), TgtCode(target_lang))
    IN  IF CacheHas(cache, key)
        THEN [ret |-> CacheGet(cache, key), raised |-> FALSE,
              cache |-> CacheHit(cache, key), key |-> key,
              hit |-> TRUE, invoked |-> FALSE]
        ELSE IF ~gen_ok
        THEN [ret |-> <<>>, raised |-> TRUE, cache |-> cache, key |-> key,
              hit |-> FALSE, invoked |-> TRUE]
        ELSE [ret |-> out, raised |-> FALSE,
              cache |-> CacheEvict(CachePut(cache, key, out)), key |-> key,
              hit |-> FALSE, invoked |-> TRUE]

\* One call.  gen_ok says whether the model invocation (tokenizer, generate,
\* decode) succeeds; nothing in translate_text catches its exception.
\* The result: the value returned, whether an exception left the call, the
\* cache afterwards, the key looked up, and whether the model was invoked.
TranslateText(cache, text, source_lang, target_lang, gen_ok) ==
    LET key == CacheKey(text, source_lang, target_lang)
        out == Generate(text, SrcCode(source_lang), TgtCode(target_lang))
    IN  IF Strip(text) = <<>>
        THEN [ret |-> text, raised |-> FALSE, cache |-> cache, key |-> <<>>,
              hit |-> FALSE, invoked |-> FALSE]
        ELSE IF CacheHas(cache, key)
        THEN [ret |-> CacheGet(cache, key), raised |-> FALSE,
              cache |-> CacheHit(cache, key), key |-> key,
              hit |-> TRUE, invoked |-> FALSE]
        ELSE IF ~gen_ok
        THEN [ret |-> <<>>, raised |-> TRUE, cache |-> cache, key |-> key,
              hit |-> FALSE, invoked |-> TRUE]
        ELSE [ret |-> out, raised |-> FALSE,
              cache |-> CacheEvict(CachePut(cache, key, out)), key |-> key,
              hit |-> FALSE, invoked |-> TRUE]

(***************************************************************************)
(* LowLatencyTranslator.speech_to_text and GoogleTTSWrapper (model.py).   *)
(***************************************************************************)
\* The ASR variant and the language hint picked for a source language
\* (model.py:179-197).
AsrSelect_HindiUnhinted(lang) ==
    IF Lower(lang) = english THEN [model |-> "tiny", hint |-> "en"]
    ELSE [model |-> "medium", hint |-> "none"]

AsrSelect(lang) ==
    IF Lower(lang) = hindi THEN [model |-> "medium", hint |-> "hi"]
    ELSE IF Lower(lang) = english THEN [model |-> "tiny", hint |-> "en"]
    ELSE [model |-> "medium", hint |-> "none"]

\* GoogleTTSWrapper.language_map (model.py:41-45).
VoiceCode(name) ==
    CASE name = hindi -> "hi"
      [] name = english -> "en"
      [] name = bengali -> "bn"
      [] name = tamil -> "ta"
      [] name = telugu -> "te"
      [] name = marathi -> "mr"
      [] name = gujarati -> "gu"
      [] name = kannada -> "kn"
      [] name = malayalam -> "ml"
      [] name = punjabi -> "pa"
      [] name = odia -> "or"
      [] name = assamese -> "as"
      [] name = urdu -> "ur"
      [] OTHER -> "none"

\* get_language_code: language_map.get(language_name.lower(), 'hi')
GetLanguageCode(language_name) ==
    IF VoiceCode(Lower(language_name)) = "none" THEN "hi"
    ELSE VoiceCode(Lower(language_name))

SpeechToText_IgnoresFailure(raw, asr_ok) == Strip(raw)

\* speech_to_text: the decoded text stripped, or "" when anything raised.
SpeechToText(raw, asr_ok) == IF asr_ok THEN Strip(raw) ELSE <<>>

(***************************************************************************)
(* Files.  A path is a temporary file's number and its suffix.            *)
(***************************************************************************)
NoFile == [id |-> 0, ext |-> "none"]

TmpFile(n, suffix) == [id |-> n, ext |-> suffix]

\* tts_file.replace('.mp3', '.wav')
WavOf(path) == IF path.ext = "mp3" THEN [path EXCEPT !.ext = "wav"] ELSE path

(***************************************************************************)
(* AudioProcessor (app.py:46-265).                                         *)
(***************************************************************************)
\* get_session_state(): the dict behind gr.State.  The two wall-clock fields
\* (last_update_time, a history item's timestamp) are written and never read
\* by the pipeline; they are left out.
SessionState ==
    [current_transcription |-> <<>>, current_translation |-> <<>>,
     translation_history |-> <<>>]

CleanupPreviousTts_NoUnlink(fs, last, unlink_ok) ==
    [files |-> fs, last_tts_file |-> NoFile, unlink_failed |-> NoFile]

\* cleanup_previous_tts(): when the tracked file is set and still exists it is
\* unlinked; os.unlink may raise, which is caught and printed, and the file
\* is forgotten either way (finally).  unlink_failed is the file a failed
\* unlink left on disk.
CleanupPreviousTts(fs, last, unlink_ok) ==
    IF last # NoFile /\ last \in fs
    THEN [files |-> IF unlink_ok THEN fs \ {last} ELSE fs,
          last_tts_file |-> NoFile,
          unlink_failed |-> IF unlink_ok THEN NoFile ELSE last]
    ELSE [files |-> fs, last_tts_file |-> last, unlink_failed |-> NoFile]

HistoryItem(original, translated, src, tgt) ==
    [original |-> original, translated |-> translated,
     source_lang |-> src, target_lang |-> tgt]

AddToHistory_Append(history, item) ==
    IF Len(history) + 1 > max_history_items
    THEN Tail(Append(history, item))
    ELSE Append(history, item)

AddToHistory_NoBound(history, item) == <<item>> \o history

\* add_to_history(): insert(0, item), then pop() the last when over the bound.
AddToHistory(history, item) ==
    IF Len(<<item>> \o history) > max_history_items
    THEN SubSeq(<<item>> \o history, 1, Len(history))
    ELSE <<item>> \o history

(***************************************************************************)
(* State.                                                                  *)
(***************************************************************************)
VARIABLES
    translation_cache,       \* NLLBTranslator.translation_cache
    tokenizer_src_lang,      \* NLLBTranslator.tokenizer.src_lang (shared)
    translator_source_lang,  \* LowLatencyTranslator.source_lang (shared)
    translator_target_lang,  \* LowLatencyTranslator.target_lang (shared)
    status,                  \* processor.status
    current_source_lang,     \* processor.current_source_lang
    current_target_lang,     \* processor.current_target_lang
    last_tts_file,           \* processor.last_tts_file
    session_state,           \* each session's gr.State dict
    selected_langs,          \* each session's saved source and target radios
    tts_output,              \* each session's tts_output audio component
    session,                 \* the session whose handler runs (or ran last)
    instance,                \* GlobalTranslator._instance: 0 is None
    lock,                    \* the thread holding GlobalTranslator._lock: 0 is free
    constructed,             \* how many LowLatencyTranslator objects were built
    loader,                  \* each thread's position in get_instance
    call,                    \* each thread's position in translate_text
    files,                   \* the temporary files that exist
    next_file,               \* number of the next temporary file
    pc,                      \* where the running handler is
    req,                     \* the running handler's locals and its trace
    ret,                     \* what process_*_file returned
    tcall,                   \* log of the latest direct translate_text call
    lcall                    \* log of the latest direct change_languages call

translatorVars == <<translator_source_lang, translator_target_lang>>

processorVars == <<status, current_source_lang, current_target_lang, last_tts_file>>

fileVars == <<files, next_file>>

sessionVars == <<session_state, selected_langs, tts_output, session>>

loaderVars == <<instance, lock, constructed, loader>>

\* What the threads of get_instance and of concurrent translate_text calls
\* own, and the log of the direct change_languages calls.
concVars == <<loaderVars, call, lcall>>

\* The cache, the tokenizer setting and the log of the direct calls.
cacheVars == <<translation_cache, tcall, tokenizer_src_lang>>

vars ==
    <<translation_cache, tokenizer_src_lang, translator_source_lang, translator_target_lang, status,
      current_source_lang, current_target_lang, last_tts_file, session_state,
      selected_langs, tts_output, session, instance, lock, constructed, loader,
      call, files, next_file, pc, req, ret, tcall, lcall>>

\* The browser sessions: each has its own gr.State and its own components.
Sessions == {"A", "B"}

\* The state argument of the running handler: Gradio passes the gr.State
\* value of the session that raised the event.
state == session_state[session]

Languages(src, tgt) == [source_lang |-> src, target_lang |-> tgt]

NoCall ==
    [called |-> FALSE, tick |-> 0, text |-> <<>>, source_lang |-> <<>>,
     target_lang |-> <<>>, ret |-> <<>>, raised |-> FALSE, key |-> <<>>,
     hit |-> FALSE, invoked |-> FALSE, model_failed |-> FALSE,
     evicted |-> {}, prev_key |-> <<>>, prev_hit |-> FALSE, len_before |-> 0]

KeySet(cache) == { cache[i].k : i \in 1..Len(cache) }

\* The log entry of a call with result r on the cache `cache`, following the
\* entry old: what the call was given, what it did, and what the call before
\* it looked up.
CallLog(old, text, source_lang, target_lang, gen_ok, r, cache) ==
    [called |-> TRUE, tick |-> 1 - old.tick, text |-> text,
     source_lang |-> source_lang, target_lang |-> target_lang,
     ret |-> r.ret, raised |-> r.raised, key |-> r.key, hit |-> r.hit,
     invoked |-> r.invoked, model_failed |-> r.invoked /\ ~gen_ok,
     evicted |-> KeySet(cache) \ KeySet(r.cache),
     prev_key |-> IF old.raised THEN <<>> ELSE old.key,
     prev_hit |-> old.hit,
     len_before |-> Len(cache)]

\* No handler running: empty locals.  nested says process_audio_file was
\* called by process_video_file; stages lists the services called so far;
\* asr_failed says the ASR model raised; tts is how text_to_speech ended;
\* failed names the step that raised; made holds the synthesis files the call
\* created; unlink_failed is the file its cleanup could not delete; used
\* holds the language each service was called with, and the text and the
\* voice code of the synthesis; pre, prev_output and
\* selected are the session's dict, tts_output and saved languages as they
\* were when the handler was called; delegated is the status the
\* process_audio_file call made by process_video_file returned.
NoReq ==
    [handler |-> "none", nested |-> FALSE, forced_lang |-> <<>>,
     transcription |-> <<>>, translated |-> <<>>, tts_file |-> NoFile,
     audio_path |-> NoFile, asr |-> [model |-> "none", hint |-> "none"],
     stages |-> <<>>, asr_failed |-> FALSE, tts |-> "none", failed |-> "none",
     made |-> {}, unlink_failed |-> NoFile, delegated |-> "none",
     used |-> [asr |-> <<>>, source_lang |-> <<>>, target_lang |-> <<>>,
               tts |-> <<>>, text |-> <<>>, voice |-> "none"],
     pre |-> SessionState, prev_output |-> NoFile,
     selected |-> Languages(<<>>, <<>>)]

NoRet == [msg |-> "none", status |-> "none", tts_file |-> NoFile]

Callers == 1..MaxCallers

Threads == 1..MaxThreads

\* A thread outside get_instance.  path says how its last call got the
\* instance, got is what the call returned (0: nothing yet), raised says the
\* call ended in an exception.
NoLoad == [pc |-> "idle", path |-> "none", got |-> 0, raised |-> FALSE]

\* A thread outside translate_text.
NoTranslate ==
    [pc |-> "idle", text |-> <<>>, source_lang |-> <<>>, target_lang |-> <<>>,
     key |-> <<>>, inputs_src |-> "none", out |-> <<>>, ret |-> <<>>,
     raised |-> "none", len_at_pop |-> 0]

\* No direct change_languages call yet.  msg and status are what the call
\* returned.
NoLangCall ==
    [called |-> FALSE, tick |-> 0, source_lang |-> <<>>, target_lang |-> <<>>,
     msg |-> "none", status |-> "none"]

\* The fields as their constructors and the module's top level leave them.
InitFields ==
    /\ translation_cache = <<>>
    /\ tcall = NoCall
    /\ tokenizer_src_lang = "eng_Latn"
    /\ translator_source_lang = english
    /\ translator_target_lang = hindi
    /\ status = "connected"
    /\ current_source_lang = english
    /\ current_target_lang = hindi
    /\ last_tts_file = NoFile
    /\ session_state = [s \in Sessions |-> SessionState]
    /\ selected_langs = [s \in Sessions |-> Languages(english, hindi)]
    /\ tts_output = [s \in Sessions |-> NoFile]
    /\ session = "A"
    /\ files = {}
    /\ next_file = 1
    /\ pc = "idle"
    /\ req = NoReq
    /\ ret = NoRet
    /\ lock = 0
    /\ loader = [t \in Callers |-> NoLoad]
    /\ call = [t \in Threads |-> NoTranslate]
    /\ lcall = NoLangCall

\* The application running: app.py:44 and 268 have built the one instance.
Init == InitFields /\ instance = 1 /\ constructed = 1

(***************************************************************************)
(* Direct calls of translate_text with arbitrary arguments.               *)
(***************************************************************************)
CallTexts ==
    { <<>>, <<" ">>, <<"a">>, <<"A">>, <<" ", "a">>, <<"ß">>, <<"S", "S">> }

CallSourceLangs == { english, hindi }

CallTargetLangs == { hindi }

\* Line 99, reached by every call that misses: tokenizer.src_lang = src_code.
SetSrcLang(r, source_lang) ==
    IF r.invoked THEN SrcCode(source_lang) ELSE tokenizer_src_lang

TranslateCall(text, source_lang, target_lang, gen_ok) ==
    LET r == TranslateText(translation_cache, text, source_lang, target_lang, gen_ok)
    IN  /\ translation_cache' = r.cache
        /\ tcall' = CallLog(tcall, text, source_lang, target_lang, gen_ok, r,
                            translation_cache)
        /\ tokenizer_src_lang' = SetSrcLang(r, source_lang)
        /\ UNCHANGED <<concVars, translatorVars, processorVars, fileVars,
                       sessionVars, pc, req, ret>>

NextCache ==
    \E text \in CallTexts, source_lang \in CallSourceLangs,
       target_lang \in CallTargetLangs, gen_ok \in BOOLEAN :
        TranslateCall(text, source_lang, target_lang, gen_ok)

SpecCache == Init /\ [][NextCache]_vars

(***************************************************************************)
(* Direct calls of translate_text whose language names and texts overlap: *)
(* translate_text takes any strings.                                       *)
(***************************************************************************)
KeyTexts == { <<"x">>, <<"u", "x">>, <<"X">> }

KeySourceLangs == { english, hindi }

KeyTargetLangs == { urdu, urd }

NextKeys ==
    \E text \in KeyTexts, source_lang \in KeySourceLangs,
       target_lang \in KeyTargetLangs, gen_ok \in BOOLEAN :
        TranslateCall(text, source_lang, target_lang, gen_ok)

SpecKeys == Init /\ [][NextKeys]_vars

(***************************************************************************)
(* AudioProcessor.process_audio_file (app.py:145-226), one action per     *)
(* step.                                                                   *)
(***************************************************************************)
\* What the ASR model may decode, before speech_to_text strips it.
AsrOutputs == { <<>>, <<" ">>, <<"a", " ">> }

\* The languages the single session picks from the two radio groups (a
\* subset of the eleven each offers).
SourceChoices == { english, hindi }

TargetChoices == { hindi }

\* Lines 147-151: the input check, then self.status = "processing".
AudioEntry(present) ==
    IF ~present
    THEN /\ ret' = [msg |-> "select_audio", status |-> "error", tts_file |-> NoFile]
         /\ pc' = "a_ret"
         /\ status' = status
    ELSE /\ status' = "processing"
         /\ pc' = "a_cleanup"
         /\ ret' = ret

\* Session s clicks audio_btn: process_audio_wrapper calls
\* process_audio_file(state, fp) with that session's state.
AudioBegin(s, present) ==
    /\ pc = "idle"
    /\ present => next_file <= MaxFiles
    /\ session' = s
    /\ req' = [NoReq EXCEPT !.handler = "audio", !.pre = session_state[s],
                            !.prev_output = tts_output[s],
                            !.selected = selected_langs[s]]
    /\ AudioEntry(present)
    /\ UNCHANGED <<concVars, cacheVars, translatorVars, current_source_lang,
                   current_target_lang, last_tts_file, session_state,
                   selected_langs, tts_output, fileVars>>

\* Line 154.
AudioCleanup(unlink_ok) ==
    /\ pc = "a_cleanup"
    /\ LET c == CleanupPreviousTts(files, last_tts_file, unlink_ok)
       IN  /\ files' = c.files
           /\ last_tts_file' = c.last_tts_file
           /\ req' = IF c.unlink_failed = NoFile THEN req
                     ELSE [req EXCEPT !.unlink_failed = c.unlink_failed]
    /\ pc' = "a_load"
    /\ UNCHANGED <<concVars, cacheVars, translatorVars, status,
                   current_source_lang, current_target_lang, sessionVars,
                   next_file, ret>>

\* Line 157: librosa.load decodes the file or raises.
AudioLoad(load_ok) ==
    /\ pc = "a_load"
    /\ IF load_ok
       THEN pc' = "a_setlang" /\ req' = req
       ELSE pc' = "a_except" /\ req' = [req EXCEPT !.failed = "decode"]
    /\ UNCHANGED <<concVars, cacheVars, translatorVars, processorVars,
                   sessionVars, fileVars, ret>>

\* Lines 162-163.
AudioSetLang ==
    /\ pc = "a_setlang"
    /\ translator_source_lang' = current_source_lang
    /\ req' = [req EXCEPT !.forced_lang = current_source_lang]
    /\ pc' = "a_asr"
    /\ UNCHANGED <<concVars, cacheVars, translator_target_lang, processorVars,
                   sessionVars, fileVars, ret>>

AudioAsr_NoCheck(raw, asr_ok) ==
    /\ pc = "a_asr"
    /\ req' = [req EXCEPT !.transcription = SpeechToText(raw, asr_ok),
                          !.asr = AsrSelect(translator_source_lang),
                          !.stages = Append(@, "asr"),
                          !.asr_failed = ~asr_ok,
                          !.used.asr = translator_source_lang,
                          !.tts_file = NoFile]
    /\ pc' = "a_translate"
    /\ UNCHANGED <<concVars, cacheVars, translatorVars, processorVars,
                   sessionVars, fileVars, ret>>

\* Lines 167-171: speech_to_text on the shared translator, tts_file = None,
\* and the test of the transcript.
AudioAsr(raw, asr_ok) ==
    /\ pc = "a_asr"
    /\ LET t == SpeechToText(raw, asr_ok)
       IN  /\ req' = [req EXCEPT !.transcription = t,
                                 !.asr = AsrSelect(translator_source_lang),
                                 !.stages = Append(@, "asr"),
                                 !.asr_failed = ~asr_ok,
                                 !.used.asr = translator_source_lang,
                                 !.tts_file = NoFile]
           /\ pc' = IF t # <<>> /\ Strip(t) # <<>> THEN "a_translate" ELSE "a_finish"
    /\ UNCHANGED <<concVars, cacheVars, translatorVars, processorVars,
                   sessionVars, fileVars, ret>>

\* Lines 183-187: translate_text with the shared translator's languages; its
\* exception, if any, goes to the handler's except clause.  The call is
\* traced in req, not in tcall.
AudioTranslate(gen_ok) ==
    /\ pc = "a_translate"
    /\ LET r == TranslateText(translation_cache, req.transcription,
                              translator_source_lang, translator_target_lang, gen_ok)
       IN  /\ translation_cache' = r.cache
           /\ tokenizer_src_lang' = SetSrcLang(r, translator_source_lang)
           /\ IF r.raised
              THEN /\ pc' = "a_except"
                   /\ req' = [req EXCEPT !.stages = Append(@, "translate"),
                                         !.used.source_lang = translator_source_lang,
                                         !.used.target_lang = translator_target_lang,
                                         !.failed = "translate"]
              ELSE /\ pc' = "a_update"
                   /\ req' = [req EXCEPT !.stages = Append(@, "translate"),
                                         !.used.source_lang = translator_source_lang,
                                         !.used.target_lang = translator_target_lang,
                                         !.translated = r.ret]
    /\ UNCHANGED <<concVars, tcall, translatorVars, processorVars,
                   sessionVars, fileVars, ret>>

\* Lines 191-195: the session dict is updated in place.
AudioUpdate ==
    /\ pc = "a_update"
    /\ session_state' =
         [session_state EXCEPT ![session] =
            [current_transcription |-> req.transcription,
             current_translation |-> req.translated,
             translation_history |->
                 AddToHistory(state.translation_history,
                              HistoryItem(req.transcription, req.translated,
                                          current_source_lang,
                                          current_target_lang))]]
    /\ pc' = "a_tts"
    /\ UNCHANGED <<concVars, cacheVars, translatorVars, processorVars,
                   selected_langs, tts_output, session, fileVars, req, ret>>

AudioTts_Raises(outcome) ==
    /\ pc = "a_tts"
    /\ LET f == TmpFile(next_file, "mp3")
           made == outcome # "no_file"
       IN  /\ files' = IF made THEN files \cup {f} ELSE files
           /\ next_file' = IF made THEN next_file + 1 ELSE next_file
           /\ last_tts_file' = IF outcome = "ok" THEN f ELSE last_tts_file
           /\ req' = [req EXCEPT !.stages = Append(@, "tts"), !.tts = outcome,
                                 !.used.tts = translator_target_lang,
                                 !.used.text = req.translated,
                                 !.used.voice =
                                     GetLanguageCode(translator_target_lang),
                                 !.tts_file = IF outcome = "ok" THEN f ELSE NoFile,
                                 !.made = IF made THEN {f} ELSE {},
                                 !.failed = IF outcome = "ok" THEN @ ELSE "tts"]
           /\ pc' = IF outcome = "ok" THEN "a_convert" ELSE "a_except"
    /\ UNCHANGED <<concVars, cacheVars, translatorVars, status,
                   current_source_lang, current_target_lang, sessionVars,
                   ret>>

\* Lines 198-217 up to the conversion: text_to_speech returns the path of a
\* new .mp3 ("ok"), or None after gTTS raised, either before the temporary
\* file was made ("no_file") or in save(), with the file left behind
\* ("save_failed").
AudioTts(outcome) ==
    /\ pc = "a_tts"
    /\ LET f == TmpFile(next_file, "mp3")
           made == outcome # "no_file"
           path == IF outcome = "ok" THEN f ELSE NoFile
       IN  /\ files' = IF made THEN files \cup {f} ELSE files
           /\ next_file' = IF made THEN next_file + 1 ELSE next_file
           /\ last_tts_file' = path
           /\ req' = [req EXCEPT !.stages = Append(@, "tts"), !.tts = outcome,
                                 !.used.tts = translator_target_lang,
                                 !.used.text = req.translated,
                                 !.used.voice =
                                     GetLanguageCode(translator_target_lang),
                                 !.tts_file = path,
                                 !.made = IF made THEN {f} ELSE {}]
           /\ pc' = IF path # NoFile /\ path \in files' /\ path.ext # "wav"
                    THEN "a_convert" ELSE "a_finish"
    /\ UNCHANGED <<concVars, cacheVars, translatorVars, status,
                   current_source_lang, current_target_lang, sessionVars,
                   ret>>

\* Lines 206-214: ffmpeg writes the .wav, which becomes the artifact, or
\* subprocess.run(check=True) raises.
AudioConvert(ffmpeg_ok) ==
    /\ pc = "a_convert"
    /\ IF ffmpeg_ok
       THEN /\ files' = files \cup {WavOf(req.tts_file)}
            /\ req' = [req EXCEPT !.tts_file = WavOf(req.tts_file),
                                  !.made = @ \cup {WavOf(req.tts_file)}]
            /\ last_tts_file' = WavOf(req.tts_file)
            /\ pc' = "a_finish"
       ELSE /\ files' = files
            /\ req' = [req EXCEPT !.failed = "convert"]
            /\ last_tts_file' = last_tts_file
            /\ pc' = "a_except"
    /\ UNCHANGED <<concVars, cacheVars, translatorVars, status,
                   current_source_lang, current_target_lang, sessionVars,
                   next_file, ret>>

\* Lines 219-221.
AudioFinish ==
    /\ pc = "a_finish"
    /\ status' = "connected"
    /\ ret' = [msg |-> "audio_ok", status |-> "connected", tts_file |-> req.tts_file]
    /\ pc' = "a_ret"
    /\ UNCHANGED <<concVars, cacheVars, translatorVars, current_source_lang,
                   current_target_lang, last_tts_file, sessionVars, fileVars,
                   req>>

AudioExcept_KeepStatus ==
    /\ pc = "a_except"
    /\ ret' = [msg |-> "audio_error", status |-> "error", tts_file |-> NoFile]
    /\ pc' = "a_ret"
    /\ UNCHANGED <<concVars, cacheVars, translatorVars, processorVars,
                   sessionVars, fileVars, req>>

\* Lines 223-226.
AudioExcept ==
    /\ pc = "a_except"
    /\ status' = "error"
    /\ ret' = [msg |-> "audio_error", status |-> "error", tts_file |-> NoFile]
    /\ pc' = "a_ret"
    /\ UNCHANGED <<concVars, cacheVars, translatorVars, current_source_lang,
                   current_target_lang, last_tts_file, sessionVars, fileVars,
                   req>>

AudioWrapper_NoStore ==
    /\ pc = "a_ret"
    /\ ~req.nested
    /\ tts_output' = [tts_output EXCEPT ![session] = ret.tts_file]
    /\ pc' = "w_done"
    /\ UNCHANGED <<concVars, cacheVars, translatorVars, processorVars,
                   session_state, selected_langs, session, fileVars, req,
                   ret>>

\* process_audio_wrapper, app.py:963-964 and 999: processor.status = stat,
\* and the returned tts_file becomes the value of the session's tts_output.
AudioWrapper ==
    /\ pc = "a_ret"
    /\ ~req.nested
    /\ status' = ret.status
    /\ tts_output' = [tts_output EXCEPT ![session] = ret.tts_file]
    /\ pc' = "w_done"
    /\ UNCHANGED <<concVars, cacheVars, translatorVars, current_source_lang,
                   current_target_lang, last_tts_file, session_state,
                   selected_langs, session, fileVars, req, ret>>

(***************************************************************************)
(* AudioProcessor.process_video_file (app.py:228-265).                    *)
(***************************************************************************)
\* Session s clicks video_btn: process_video_wrapper calls
\* process_video_file(state, fp): lines 231-235.
VideoBegin(s, present) ==
    /\ pc = "idle"
    /\ present => next_file + 1 <= MaxFiles
    /\ session' = s
    /\ req' = [NoReq EXCEPT !.handler = "video", !.pre = session_state[s],
                            !.prev_output = tts_output[s],
                            !.selected = selected_langs[s]]
    /\ IF ~present
       THEN /\ ret' = [msg |-> "select_video", status |-> "error",
                       tts_file |-> NoFile]
            /\ pc' = "v_ret"
            /\ status' = status
       ELSE /\ status' = "processing"
            /\ pc' = "v_cleanup"
            /\ ret' = ret
    /\ UNCHANGED <<concVars, cacheVars, translatorVars, current_source_lang,
                   current_target_lang, last_tts_file, session_state,
                   selected_langs, tts_output, fileVars>>

\* Line 238.
VideoCleanup(unlink_ok) ==
    /\ pc = "v_cleanup"
    /\ LET c == CleanupPreviousTts(files, last_tts_file, unlink_ok)
       IN  /\ files' = c.files
           /\ last_tts_file' = c.last_tts_file
           /\ req' = IF c.unlink_failed = NoFile THEN req
                     ELSE [req EXCEPT !.unlink_failed = c.unlink_failed]
    /\ pc' = "v_tmp"
    /\ UNCHANGED <<concVars, cacheVars, translatorVars, status,
                   current_source_lang, current_target_lang, sessionVars,
                   next_file, ret>>

\* Lines 241-242: NamedTemporaryFile(suffix=".wav", delete=False).
VideoTmp ==
    /\ pc = "v_tmp"
    /\ files' = files \cup {TmpFile(next_file, "wav")}
    /\ next_file' = next_file + 1
    /\ req' = [req EXCEPT !.audio_path = TmpFile(next_file, "wav")]
    /\ pc' = "v_extract"
    /\ UNCHANGED <<concVars, cacheVars, translatorVars, processorVars,
                   sessionVars, ret>>

\* Lines 244-248: ffmpeg extracts the audio track or subprocess.run raises.
VideoExtract(ffmpeg_ok) ==
    /\ pc = "v_extract"
    /\ IF ffmpeg_ok
       THEN pc' = "v_call" /\ req' = req
       ELSE pc' = "v_except" /\ req' = [req EXCEPT !.failed = "extract"]
    /\ UNCHANGED <<concVars, cacheVars, translatorVars, processorVars,
                   sessionVars, fileVars, ret>>

\* Line 253: process_audio_file(state, audio_path); the path is not empty.
VideoCallAudio ==
    /\ pc = "v_call"
    /\ req' = [req EXCEPT !.nested = TRUE]
    /\ AudioEntry(TRUE)
    /\ UNCHANGED <<concVars, cacheVars, translatorVars, current_source_lang,
                   current_target_lang, last_tts_file, sessionVars, fileVars>>

\* Lines 253-260: whatever process_audio_file returned, the extracted audio
\* is removed and the call reports success with the returned tts_file; an
\* os.unlink that raises leaves the file and goes to the except clause.
VideoAfterAudio(unlink_ok) ==
    /\ pc = "a_ret"
    /\ req.nested
    /\ req' = [req EXCEPT !.delegated = ret.status,
                          !.failed = IF unlink_ok THEN @ ELSE "unlink"]
    /\ IF unlink_ok
       THEN /\ files' = files \ {req.audio_path}
            /\ status' = "connected"
            /\ ret' = [msg |-> "video_ok", status |-> "connected",
                       tts_file |-> ret.tts_file]
            /\ pc' = "v_ret"
       ELSE /\ files' = files
            /\ status' = status
            /\ ret' = ret
            /\ pc' = "v_except"
    /\ UNCHANGED <<concVars, cacheVars, translatorVars, current_source_lang,
                   current_target_lang, last_tts_file, sessionVars,
                   next_file>>

\* Lines 262-265.
VideoExcept ==
    /\ pc = "v_except"
    /\ status' = "error"
    /\ ret' = [msg |-> "video_error", status |-> "error", tts_file |-> NoFile]
    /\ pc' = "v_ret"
    /\ UNCHANGED <<concVars, cacheVars, translatorVars, current_source_lang,
                   current_target_lang, last_tts_file, sessionVars, fileVars,
                   req>>

\* process_video_wrapper, app.py:1016-1017 and 1052: processor.status = stat,
\* and the returned tts_file becomes the value of the session's tts_output.
VideoWrapper ==
    /\ pc = "v_ret"
    /\ status' = ret.status
    /\ tts_output' = [tts_output EXCEPT ![session] = ret.tts_file]
    /\ pc' = "w_done"
    /\ UNCHANGED <<concVars, cacheVars, translatorVars, current_source_lang,
                   current_target_lang, last_tts_file, session_state,
                   selected_langs, session, fileVars, req, ret>>

\* The wrapper returns its outputs to the UI; the handler's locals are gone.
HandlerReturn ==
    /\ pc = "w_done"
    /\ pc' = "idle"
    /\ req' = NoReq
    /\ ret' = NoRet
    /\ UNCHANGED <<concVars, cacheVars, translatorVars, processorVars,
                   sessionVars, fileVars>>

(***************************************************************************)
(* Languages (app.py:76-94, 930-936).                                     *)
(***************************************************************************)
ChangeLanguages_KeepTranslator(src, tgt) ==
    [translator_source_lang |-> translator_source_lang,
     translator_target_lang |-> translator_target_lang,
     current_source_lang |-> src, current_target_lang |-> tgt,
     msg |-> "changed", status |-> "connected"]

\* change_languages(): the four fields after the call, and the message and
\* the status it returns.  self.translator and
\* GlobalTranslator.get_instance() are the same object, so lines 87-88
\* repeat lines 79-80.
ChangeLanguages(src, tgt) ==
    [translator_source_lang |-> src, translator_target_lang |-> tgt,
     current_source_lang |-> src, current_target_lang |-> tgt,
     msg |-> "changed", status |-> "connected"]

\* Session s clicks save_lang_btn with its radios at src and tgt:
\* save_languages(src, tgt); src is lower-cased, tgt is not.
SaveLanguages(s, src, tgt) ==
    /\ LET c == ChangeLanguages(Lower(src), tgt)
       IN  /\ translator_source_lang' = c.translator_source_lang
           /\ translator_target_lang' = c.translator_target_lang
           /\ current_source_lang' = Lower(src)
           /\ current_target_lang' = tgt
           /\ status' = c.status
    /\ selected_langs' = [selected_langs EXCEPT ![s] = Languages(Lower(src), tgt)]
    /\ UNCHANGED <<concVars, cacheVars, last_tts_file, session_state,
                   tts_output, session, fileVars, pc, req, ret>>

(***************************************************************************)
(* The application, one handler at a time.                                 *)
(***************************************************************************)
Next ==
    \/ \E present \in BOOLEAN : AudioBegin("A", present)
    \/ \E unlink_ok \in BOOLEAN : AudioCleanup(unlink_ok)
    \/ \E load_ok \in BOOLEAN : AudioLoad(load_ok)
    \/ AudioSetLang
    \/ \E raw \in AsrOutputs, asr_ok \in BOOLEAN : AudioAsr(raw, asr_ok)
    \/ \E gen_ok \in BOOLEAN : AudioTranslate(gen_ok)
    \/ AudioUpdate
    \/ \E outcome \in {"ok", "no_file", "save_failed"} : AudioTts(outcome)
    \/ \E ffmpeg_ok \in BOOLEAN : AudioConvert(ffmpeg_ok)
    \/ AudioFinish
    \/ AudioExcept
    \/ AudioWrapper
    \/ \E present \in BOOLEAN : VideoBegin("A", present)
    \/ \E unlink_ok \in BOOLEAN : VideoCleanup(unlink_ok)
    \/ VideoTmp
    \/ \E ffmpeg_ok \in BOOLEAN : VideoExtract(ffmpeg_ok)
    \/ VideoCallAudio
    \/ \E unlink_ok \in BOOLEAN : VideoAfterAudio(unlink_ok)
    \/ VideoExcept
    \/ VideoWrapper
    \/ HandlerReturn
    \/ \E src \in SourceChoices, tgt \in TargetChoices :
          pc = "idle" /\ SaveLanguages("A", src, tgt)

Spec == Init /\ [][Next]_vars

(***************************************************************************)
(* change_languages called directly, with names of either case and with a *)
(* name no table has, between requests of one session.                    *)
(***************************************************************************)
LangSources == { english, English, klingon }

LangTargets == { hindi, Hindi }

\* processor.change_languages(src, tgt), app.py:76-94, with string
\* arguments: nothing in the try block raises.
ChangeLanguagesCall(src, tgt) ==
    /\ pc = "idle"
    /\ LET c == ChangeLanguages(src, tgt)
       IN  /\ translator_source_lang' = c.translator_source_lang
           /\ translator_target_lang' = c.translator_target_lang
           /\ current_source_lang' = c.current_source_lang
           /\ current_target_lang' = c.current_target_lang
           /\ lcall' = [called |-> TRUE, tick |-> 1 - lcall.tick,
                        source_lang |-> src, target_lang |-> tgt,
                        msg |-> c.msg, status |-> c.status]
    /\ UNCHANGED <<loaderVars, call, cacheVars, status, last_tts_file,
                   sessionVars, fileVars, pc, req, ret>>

NextLang ==
    \/ \E src \in LangSources, tgt \in LangTargets : ChangeLanguagesCall(src, tgt)
    \/ \E src \in LangSources, tgt \in LangTargets :
          pc = "idle" /\ SaveLanguages("A", src, tgt)
    \/ next_file <= MaxLangRequests /\ AudioBegin("A", TRUE)
    \/ AudioCleanup(TRUE)
    \/ AudioLoad(TRUE)
    \/ AudioSetLang
    \/ AudioAsr(<<"a", " ">>, TRUE)
    \/ AudioTranslate(TRUE)
    \/ AudioUpdate
    \/ AudioTts("ok")
    \/ AudioConvert(TRUE)
    \/ AudioFinish
    \/ AudioWrapper
    \/ next_file <= MaxLangRequests /\ VideoBegin("A", TRUE)
    \/ VideoCleanup(TRUE)
    \/ VideoTmp
    \/ VideoExtract(TRUE)
    \/ VideoCallAudio
    \/ VideoAfterAudio(TRUE)
    \/ VideoWrapper
    \/ HandlerReturn

SpecLang == Init /\ [][NextLang]_vars

(***************************************************************************)
(* Requests under each pair of language names: the names of the tables,   *)
(* two capitalised ones and one no table has.                             *)
(***************************************************************************)
SupportedNames ==
    { english, hindi, bengali, tamil, telugu, marathi, gujarati, kannada,
      malayalam, punjabi, odia, assamese, urdu }

AllNames == SupportedNames \cup { English, Hindi, klingon }

\* The languages are set once, by a first change_languages call, and the
\* session's requests then run under them.
NextResolve ==
    \/ \E src \in AllNames, tgt \in AllNames :
          ~lcall.called /\ ChangeLanguagesCall(src, tgt)
    \/ next_file <= MaxLangRequests /\ AudioBegin("A", TRUE)
    \/ AudioCleanup(TRUE)
    \/ AudioLoad(TRUE)
    \/ AudioSetLang
    \/ AudioAsr(<<"a", " ">>, TRUE)
    \/ AudioTranslate(TRUE)
    \/ AudioUpdate
    \/ AudioTts("ok")
    \/ AudioConvert(TRUE)
    \/ AudioFinish
    \/ AudioWrapper
    \/ HandlerReturn

SpecResolve == Init /\ [][NextResolve]_vars

(***************************************************************************)
(* GlobalTranslator.get_instance (app.py:24-42), called by several        *)
(* threads, one action per step.                                           *)
(***************************************************************************)
\* The process starting: no instance yet.
InitLoad == InitFields /\ instance = 0 /\ constructed = 0

LoaderStep(t, l) == loader' = [loader EXCEPT ![t] = l]

\* A thread calls get_instance().
GetInstanceCall(t) ==
    /\ loader[t].pc = "idle"
    /\ LoaderStep(t, [NoLoad EXCEPT !.pc = "check"])
    /\ UNCHANGED <<instance, lock, constructed, call, lcall, cacheVars,
                   translatorVars, processorVars, sessionVars, fileVars, pc,
                   req, ret>>

\* Line 30: if cls._instance is None, without the lock.
GetInstanceCheck(t) ==
    /\ loader[t].pc = "check"
    /\ LoaderStep(t, IF instance = 0
                     THEN [loader[t] EXCEPT !.pc = "acquire"]
                     ELSE [loader[t] EXCEPT !.pc = "return", !.path = "fast"])
    /\ UNCHANGED <<instance, lock, constructed, call, lcall, cacheVars,
                   translatorVars, processorVars, sessionVars, fileVars, pc,
                   req, ret>>

\* Line 31: with cls._lock blocks until the lock is free.
GetInstanceAcquire(t) ==
    /\ loader[t].pc = "acquire"
    /\ lock = 0
    /\ lock' = t
    /\ LoaderStep(t, [loader[t] EXCEPT !.pc = "recheck"])
    /\ UNCHANGED <<instance, constructed, call, lcall, cacheVars,
                   translatorVars, processorVars, sessionVars, fileVars, pc,
                   req, ret>>

GetInstanceRecheck_Skipped(t) ==
    /\ loader[t].pc = "recheck"
    /\ LoaderStep(t, [loader[t] EXCEPT !.pc = "construct"])
    /\ UNCHANGED <<instance, lock, constructed, call, lcall, cacheVars,
                   translatorVars, processorVars, sessionVars, fileVars, pc,
                   req, ret>>

\* Line 32: the second test, under the lock.
GetInstanceRecheck(t) ==
    /\ loader[t].pc = "recheck"
    /\ LoaderStep(t, IF instance = 0
                     THEN [loader[t] EXCEPT !.pc = "construct"]
                     ELSE [loader[t] EXCEPT !.pc = "release", !.path = "waited"])
    /\ UNCHANGED <<instance, lock, constructed, call, lcall, cacheVars,
                   translatorVars, processorVars, sessionVars, fileVars, pc,
                   req, ret>>

\* Line 34: cls._instance = LowLatencyTranslator().  When the constructor
\* raises nothing is assigned, the with block releases the lock and the
\* exception leaves get_instance.
GetInstanceConstruct(t, load_ok) ==
    /\ loader[t].pc = "construct"
    /\ IF load_ok
       THEN /\ constructed' = constructed + 1
            /\ instance' = constructed + 1
            /\ lock' = lock
            /\ LoaderStep(t, [loader[t] EXCEPT !.pc = "warm_up", !.path = "built"])
       ELSE /\ constructed' = constructed
            /\ instance' = instance
            /\ lock' = 0
            /\ LoaderStep(t, [loader[t] EXCEPT !.pc = "idle", !.raised = TRUE])
    /\ UNCHANGED <<call, lcall, cacheVars, translatorVars, processorVars,
                   sessionVars, fileVars, pc, req, ret>>

\* Lines 35-40: warm_up_models on the instance already assigned.
GetInstanceWarmUp(t, warm_ok) ==
    /\ loader[t].pc = "warm_up"
    /\ IF warm_ok
       THEN /\ lock' = lock
            /\ LoaderStep(t, [loader[t] EXCEPT !.pc = "release"])
       ELSE /\ lock' = 0
            /\ LoaderStep(t, [loader[t] EXCEPT !.pc = "idle", !.raised = TRUE])
    /\ UNCHANGED <<instance, constructed, call, lcall, cacheVars,
                   translatorVars, processorVars, sessionVars, fileVars, pc,
                   req, ret>>

\* The end of the with block.
GetInstanceRelease(t) ==
    /\ loader[t].pc = "release"
    /\ lock' = 0
    /\ LoaderStep(t, [loader[t] EXCEPT !.pc = "return"])
    /\ UNCHANGED <<instance, constructed, call, lcall, cacheVars,
                   translatorVars, processorVars, sessionVars, fileVars, pc,
                   req, ret>>

\* Line 42: return cls._instance.
GetInstanceReturn(t) ==
    /\ loader[t].pc = "return"
    /\ LoaderStep(t, [loader[t] EXCEPT !.pc = "idle", !.got = instance])
    /\ UNCHANGED <<instance, lock, constructed, call, lcall, cacheVars,
                   translatorVars, processorVars, sessionVars, fileVars, pc,
                   req, ret>>

(***************************************************************************)
(* Two browser sessions on the one global processor (app.py:267-268).     *)
(* Gradio runs one call of an event listener at a time, so the audio      *)
(* handlers of the two sessions follow each other, while save_languages,  *)
(* another listener, runs at any point of a handler.  Every service       *)
(* succeeds here.                                                          *)
(***************************************************************************)
\* The (source, target) pairs the sessions save.
SessionLanguageChoices == { <<english, hindi>>, <<hindi, english>> }

\* ui_tick(state) for session s: the status and the languages it displays
\* are read from the global processor.
UiTick(s) ==
    [status |-> status,
     langs |-> Languages(current_source_lang, current_target_lang),
     state |-> session_state[s]]

NextSessions ==
    \/ \E s \in Sessions, l \in SessionLanguageChoices :
          SaveLanguages(s, l[1], l[2])
    \/ \E s \in Sessions : next_file <= MaxSessionRequests /\ AudioBegin(s, TRUE)
    \/ AudioCleanup(TRUE)
    \/ AudioLoad(TRUE)
    \/ AudioSetLang
    \/ AudioAsr(<<"a", " ">>, TRUE)
    \/ AudioTranslate(TRUE)
    \/ AudioUpdate
    \/ AudioTts("ok")
    \/ AudioConvert(TRUE)
    \/ AudioFinish
    \/ AudioWrapper
    \/ HandlerReturn

SpecSessions == Init /\ [][NextSessions]_vars

NextLoad ==
    \E t \in Callers :
        \/ GetInstanceCall(t)
        \/ GetInstanceCheck(t)
        \/ GetInstanceAcquire(t)
        \/ GetInstanceRecheck(t)
        \/ \E load_ok \in BOOLEAN : GetInstanceConstruct(t, load_ok)
        \/ \E warm_ok \in BOOLEAN : GetInstanceWarmUp(t, warm_ok)
        \/ GetInstanceRelease(t)
        \/ GetInstanceReturn(t)

SpecLoad == InitLoad /\ [][NextLoad]_vars

(***************************************************************************)
(* NLLBTranslator.translate_text (model.py:81-118) called by several      *)
(* threads at once, one action per statement that reads or writes the     *)
(* cache.  Nothing in the method takes a lock.                             *)
(***************************************************************************)
ThreadTexts == { <<" ">>, <<"a">>, <<"b">>, <<"c">> }

ThreadSourceLangs == { english, hindi }
\* The texts of the calls that differ in their source language.
TokenizerTexts == { <<"a">>, <<"b">> }

CallStep(t, c) == call' = [call EXCEPT ![t] = c]

\* Lines 82-85: a blank text is returned at once; otherwise the key is built.
TranslateBegin(t, text, source_lang, target_lang) ==
    /\ call[t].pc = "idle"
    /\ CallStep(t, IF Strip(text) = <<>>
                   THEN [NoTranslate EXCEPT !.text = text, !.ret = text,
                                            !.source_lang = source_lang,
                                            !.target_lang = target_lang]
                   ELSE [NoTranslate EXCEPT
                            !.pc = "lookup", !.text = text,
                            !.source_lang = source_lang,
                            !.target_lang = target_lang,
                            !.key = CacheKey(text, source_lang, target_lang)])
    /\ UNCHANGED <<loaderVars, lcall, cacheVars, translatorVars,
                   processorVars, sessionVars, fileVars, pc, req, ret>>

\* Line 86: if cache_key in self.translation_cache.
TranslateLookup(t) ==
    /\ call[t].pc = "lookup"
    /\ CallStep(t, [call[t] EXCEPT !.pc = IF CacheHas(translation_cache, call[t].key)
                                          THEN "read" ELSE "set_src"])
    /\ UNCHANGED <<loaderVars, lcall, cacheVars, translatorVars,
                   processorVars, sessionVars, fileVars, pc, req, ret>>

\* Line 87: return self.translation_cache[cache_key]; a KeyError when the
\* key has gone since line 86.
TranslateRead(t) ==
    /\ call[t].pc = "read"
    /\ IF CacheHas(translation_cache, call[t].key)
       THEN /\ translation_cache' = CacheHit(translation_cache, call[t].key)
            /\ CallStep(t, [call[t] EXCEPT
                               !.pc = "idle",
                               !.ret = CacheGet(translation_cache, call[t].key)])
       ELSE /\ translation_cache' = translation_cache
            /\ CallStep(t, [call[t] EXCEPT !.pc = "idle", !.raised = "KeyError"])
    /\ UNCHANGED <<loaderVars, lcall, tcall, tokenizer_src_lang,
                   translatorVars, processorVars,
                   sessionVars, fileVars, pc, req, ret>>

\* Lines 96-99: the codes are looked up and the shared tokenizer is set to
\* the source code.
TranslateSetSrc(t) ==
    /\ call[t].pc = "set_src"
    /\ tokenizer_src_lang' = SrcCode(call[t].source_lang)
    /\ CallStep(t, [call[t] EXCEPT !.pc = "tokenize"])
    /\ UNCHANGED <<loaderVars, lcall, translation_cache, tcall,
                   translatorVars, processorVars, sessionVars, fileVars, pc,
                   req, ret>>

\* Line 100: the tokenizer builds the inputs with the source code it is set
\* to at this moment.
TranslateTokenize(t) ==
    /\ call[t].pc = "tokenize"
    /\ CallStep(t, [call[t] EXCEPT !.pc = "generate",
                                   !.inputs_src = tokenizer_src_lang])
    /\ UNCHANGED <<loaderVars, lcall, cacheVars, translatorVars,
                   processorVars, sessionVars, fileVars, pc, req, ret>>

\* Lines 101-112: the model translates the inputs, forced to the target
\* code, or raises.
TranslateGenerate(t, gen_ok) ==
    /\ call[t].pc = "generate"
    /\ CallStep(t, IF gen_ok
                   THEN [call[t] EXCEPT
                            !.pc = "insert",
                            !.out = Generate(call[t].text, call[t].inputs_src,
                                             TgtCode(call[t].target_lang))]
                   ELSE [call[t] EXCEPT !.pc = "idle", !.raised = "model"])
    /\ UNCHANGED <<loaderVars, lcall, cacheVars, translatorVars,
                   processorVars, sessionVars, fileVars, pc, req, ret>>

\* Line 114: self.translation_cache[cache_key] = translated_text.
TranslateInsert(t) ==
    /\ call[t].pc = "insert"
    /\ translation_cache' = CachePut(translation_cache, call[t].key, call[t].out)
    /\ CallStep(t, [call[t] EXCEPT !.pc = "check"])
    /\ UNCHANGED <<loaderVars, lcall, tcall, tokenizer_src_lang,
                   translatorVars, processorVars,
                   sessionVars, fileVars, pc, req, ret>>

\* Line 115: if len(self.translation_cache) > self.cache_size.
TranslateCheck(t) ==
    /\ call[t].pc = "check"
    /\ CallStep(t, [call[t] EXCEPT !.pc = IF Len(translation_cache) > cache_size
                                          THEN "evict" ELSE "return"])
    /\ UNCHANGED <<loaderVars, lcall, cacheVars, translatorVars,
                   processorVars, sessionVars, fileVars, pc, req, ret>>

\* Line 116: popitem(last=False) removes the first entry of the cache as it
\* is now; on an empty OrderedDict it raises KeyError.
TranslateEvict(t) ==
    /\ call[t].pc = "evict"
    /\ IF translation_cache # <<>>
       THEN /\ translation_cache' = Tail(translation_cache)
            /\ CallStep(t, [call[t] EXCEPT !.pc = "return",
                                           !.len_at_pop = Len(translation_cache)])
       ELSE /\ translation_cache' = translation_cache
            /\ CallStep(t, [call[t] EXCEPT !.pc = "idle", !.raised = "KeyError"])
    /\ UNCHANGED <<loaderVars, lcall, tcall, tokenizer_src_lang,
                   translatorVars, processorVars,
                   sessionVars, fileVars, pc, req, ret>>

\* Line 118: return translated_text.
TranslateReturn(t) ==
    /\ call[t].pc = "return"
    /\ CallStep(t, [call[t] EXCEPT !.pc = "idle", !.ret = call[t].out])
    /\ UNCHANGED <<loaderVars, lcall, cacheVars, translatorVars,
                   processorVars, sessionVars, fileVars, pc, req, ret>>

NextThreads ==
    \E t \in Threads :
        \/ \E text \in ThreadTexts : TranslateBegin(t, text, english, hindi)
        \/ TranslateLookup(t)
        \/ TranslateRead(t)
        \/ TranslateSetSrc(t)
        \/ TranslateTokenize(t)
        \/ \E gen_ok \in BOOLEAN : TranslateGenerate(t, gen_ok)
        \/ TranslateInsert(t)
        \/ TranslateCheck(t)
        \/ TranslateEvict(t)
        \/ TranslateReturn(t)

SpecThreads == Init /\ [][NextThreads]_vars

\* Threads of the server that translate from different source languages: the
\* tokenizer whose src_lang line 99 sets is the one object all of them use.
NextTokenizer ==
    \E t \in Threads :
        \/ \E text \in TokenizerTexts, source_lang \in ThreadSourceLangs :
              TranslateBegin(t, text, source_lang, hindi)
        \/ TranslateLookup(t)
        \/ TranslateRead(t)
        \/ TranslateSetSrc(t)
        \/ TranslateTokenize(t)
        \/ \E gen_ok \in BOOLEAN : TranslateGenerate(t, gen_ok)
        \/ TranslateInsert(t)
        \/ TranslateCheck(t)
        \/ TranslateEvict(t)
        \/ TranslateReturn(t)

SpecTokenizer == Init /\ [][NextTokenizer]_vars

(***************************************************************************)
(* The translation cache.                                                  *)
(***************************************************************************)
\* A call that missed, invoked the model and stored its result.
Stored(l) == l.called /\ l.invoked /\ ~l.raised

\* C1: after every translate_text call has returned, whatever the calls
\* before it were, the cache holds at most cache_size entries.
C1_CacheBounded == Len(translation_cache) <= cache_size

\* A miss on a full cache has stored its entry and the cache is full again.
C1_Witness ==
    /\ Stored(tcall)
    /\ tcall.len_before = cache_size
    /\ Len(translation_cache) = cache_size

\* C2: eviction follows insertion order, not access order.  A hit leaves the
\* cache, contents and order, as it was; a miss appends its entry, and when
\* that makes cache_size + 1 entries exactly the first-inserted one goes
\* while every later one stays in place.
C2_Step ==
    tcall'.tick # tcall.tick =>
        /\ tcall'.hit => translation_cache' = translation_cache
        /\ Stored(tcall') =>
            /\ translation_cache'[Len(translation_cache')].k = tcall'.key
            /\ SubSeq(translation_cache', 1, Len(translation_cache') - 1)
                 = IF Len(translation_cache) = cache_size
                   THEN Tail(translation_cache)
                   ELSE translation_cache

C2_InsertionOrderEviction == [][C2_Step]_vars

\* The key evicted by a miss is the key that the call just before it hit.
C2_Witness ==
    /\ Stored(tcall)
    /\ tcall.prev_hit
    /\ tcall.evicted = {tcall.prev_key}

\* str.casefold(): as lower(), but the sharp s folds to "ss".
RECURSIVE CaseFold(_)
CaseFold(s) ==
    IF s = <<>> THEN <<>>
    ELSE (IF Head(s) = "ß" THEN <<"s", "s">> ELSE <<LowerChar(Head(s))>>)
         \o CaseFold(Tail(s))

\* The call logged in tcall' is a second call after the one logged in tcall:
\* the first returned, and the second has the same languages.
SecondCall ==
    /\ tcall'.tick # tcall.tick
    /\ tcall.called /\ ~tcall.raised
    /\ tcall'.source_lang = tcall.source_lang
    /\ tcall'.target_lang = tcall.target_lang

SameAnswer ==
    /\ ~tcall'.raised
    /\ tcall'.ret = tcall.ret
    /\ ~tcall'.invoked

C4_FailureCaught ==
    (tcall.called /\ tcall.model_failed) =>
        (~tcall.raised /\ tcall.ret = tcall.text)

\* The text a stored translation was generated from (Generate puts the two
\* codes before it).
SourceOf(value) == SubSeq(value, 3, Len(value))

\* C30 as stated: a call that builds the cache key the call before it built
\* has the same source language, target language and normalised text, and
\* when it hits, the translation it returns was generated for its own
\* languages and text.
C30_Step ==
    (/\ tcall'.tick # tcall.tick
     /\ tcall.called
     /\ tcall.key # <<>>
     /\ tcall'.key = tcall.key)
    => /\ tcall'.source_lang = tcall.source_lang
       /\ tcall'.target_lang = tcall.target_lang
       /\ Lower(Strip(tcall'.text)) = Lower(Strip(tcall.text))
       /\ tcall'.hit =>
             /\ tcall'.ret[1] = SrcCode(tcall'.source_lang)
             /\ tcall'.ret[2] = TgtCode(tcall'.target_lang)
             /\ Lower(Strip(SourceOf(tcall'.ret))) = Lower(Strip(tcall'.text))

C30_KeyFaithful == [][C30_Step]_vars

\* C28: translate_text called with an empty or blank text returns that text
\* as it is, looks up no key, leaves the translation cache, contents and
\* order, as it was, and does not invoke the translation model.
C28_Step ==
    (tcall'.tick # tcall.tick /\ Strip(tcall'.text) = <<>>) =>
        /\ ~tcall'.raised
        /\ tcall'.ret = tcall'.text
        /\ tcall'.key = <<>>
        /\ ~tcall'.hit
        /\ ~tcall'.invoked
        /\ translation_cache' = translation_cache

C28_BlankTextNoOp == [][C28_Step]_vars

\* A blank text was given while the cache was full, and came back.
C28_Witness ==
    /\ tcall.called
    /\ tcall.text = <<" ">>
    /\ tcall.ret = <<" ">>
    /\ tcall.len_before = cache_size
    /\ Len(translation_cache) = cache_size

(***************************************************************************)
(* The session pipeline.                                                   *)
(***************************************************************************)
\* process_audio_file has returned (to its wrapper or to process_video_file).
AudioReturned == pc = "a_ret"

InputMissing == ret.msg \in {"select_audio", "select_video"}

\* C5 as stated: if a step of process_audio_file fails unexpectedly (decode,
\* translation, synthesis post-processing) the call returns, the status is
\* error, and current_transcription and current_translation hold the values
\* they had before the call.
C5_ErrorPreservesFields ==
    (AudioReturned /\ req.failed # "none") =>
        /\ ret.status = "error"
        /\ status = "error"
        /\ state.current_transcription = req.pre.current_transcription
        /\ state.current_translation = req.pre.current_translation

\* C6: a request that passes validation sets the status to processing, and
\* it has resolved to connected or error when it returns, so the status is
\* never processing while no request is in flight.
C6_Resolved ==
    /\ (pc \in {"a_ret", "v_ret", "w_done"} /\ ~InputMissing)
          => status \in {"connected", "error"}
    /\ pc = "idle" => status \in {"connected", "error"}

C6_Starts ==
    (pc \in {"idle", "v_call"} /\ pc' \in {"a_cleanup", "v_cleanup"})
        => status' = "processing"

C6_StatusCycle == []C6_Resolved /\ [][C6_Starts]_vars

\* A request that failed after it had set processing has returned.
C6_Witness ==
    /\ AudioReturned
    /\ req.failed = "translate"
    /\ status = "error"

\* C7: when ASR returns an empty transcript, process_audio_file leaves the
\* transcript, the translation and the history as they were, calls neither
\* translation nor synthesis, and ends connected.
C7_EmptyTranscriptNoOp ==
    (AudioReturned /\ req.stages # <<>> /\ Strip(req.transcription) = <<>>) =>
        /\ state = req.pre
        /\ req.stages = <<"asr">>
        /\ ret.status = "connected"
        /\ status = "connected"

\* An empty transcript in a session that already has a history.
C7_Witness ==
    /\ AudioReturned
    /\ req.stages = <<"asr">>
    /\ req.transcription = <<>>
    /\ req.pre.translation_history # <<>>
    /\ ret.status = "connected"

\* C8: a call with no file path returns the status error and the message
\* asking for a file, calls no model and leaves the session dict as it was;
\* the handler has stored the error status when it completes.
C8_InputMissing ==
    InputMissing =>
        /\ ret.status = "error"
        /\ req.stages = <<>>
        /\ state = req.pre
        /\ pc = "w_done" => status = "error"

\* A handler called without a file has completed, in a session whose
\* earlier request succeeded.
C8_Witness ==
    /\ pc = "w_done"
    /\ InputMissing
    /\ status = "error"
    /\ req.pre.translation_history # <<>>

\* C9: when ASR gives a transcript t, translation gives r and synthesis
\* (gTTS and the conversion) succeeds, the call ends with the transcript t,
\* the translation r, history[0] = (t, r, current source, current target),
\* status connected and an artifact that exists.
C9_HappyPath ==
    (AudioReturned /\ req.tts = "ok" /\ req.failed = "none") =>
        /\ state.current_transcription = req.transcription
        /\ state.current_translation = req.translated
        /\ state.translation_history # <<>>
        /\ state.translation_history[1] =
              HistoryItem(req.transcription, req.translated,
                          current_source_lang, current_target_lang)
        /\ status = "connected"
        /\ ret.status = "connected"
        /\ ret.tts_file # NoFile
        /\ ret.tts_file \in files

\* A second successful request, whose item is put before the first one's.
C9_Witness ==
    /\ AudioReturned
    /\ req.tts = "ok"
    /\ req.failed = "none"
    /\ Len(state.translation_history) = 2
    /\ state.translation_history[1] # state.translation_history[2]
    /\ ret.tts_file.ext = "wav"

\* C10: the history never holds more than max_history_items items; each
\* add_to_history puts the new item first and keeps the others in order,
\* and on a full history it drops exactly the last, oldest, one.
C10_Step ==
    LET h == state.translation_history
        h2 == state'.translation_history
    IN  IF pc = "a_update"
        THEN /\ Len(h2) = IF Len(h) < max_history_items
                          THEN Len(h) + 1 ELSE max_history_items
             /\ h2[1] = HistoryItem(req.transcription, req.translated,
                                    current_source_lang, current_target_lang)
             /\ \A i \in 2..Len(h2) : h2[i] = h[i - 1]
        ELSE h2 = h

C10_HistoryBound ==
    /\ [](Len(state.translation_history) <= max_history_items)
    /\ [][C10_Step]_vars

\* An item was added to a full history and the oldest one is gone.
C10_Witness ==
    /\ pc = "a_tts"
    /\ Len(req.pre.translation_history) = max_history_items
    /\ Len(state.translation_history) = max_history_items
    /\ state.translation_history[max_history_items]
          # req.pre.translation_history[max_history_items]

(***************************************************************************)
(* Synthesis artifacts and failures of the services.                       *)
(***************************************************************************)
\* process_audio_file has returned from a call that passed the input check,
\* made in a session whose previous call returned an artifact.
AfterArtifact == AudioReturned /\ ~InputMissing /\ req.prev_output # NoFile

ArtifactsLeft == { f \in files : f.ext = "mp3" \/ f \in req.made }

\* C12 as stated: once process_audio_file has returned, at most one synthesis
\* file, the intermediate .mp3 included, exists, and it is the tracked one.
C12_AtMostOneArtifact ==
    AudioReturned =>
        /\ Cardinality(ArtifactsLeft) <= 1
        /\ ArtifactsLeft \subseteq {last_tts_file}

\* C18 as stated: when the conversion to .wav fails, process_audio_file still
\* ends with a status other than error and returns the .mp3 it had.
C18_ConversionFailureTolerated ==
    (AudioReturned /\ req.failed = "convert") =>
        /\ ret.status # "error"
        /\ status # "error"
        /\ ret.tts_file # NoFile
        /\ ret.tts_file = req.tts_file

\* C19: when synthesis fails, text_to_speech returns None without raising,
\* and process_audio_file still writes the transcript, the translation and
\* the history item, ends connected and returns no artifact.
C19_SynthesisFailureTolerated ==
    (AudioReturned /\ req.tts \in {"no_file", "save_failed"}) =>
        /\ req.failed = "none"
        /\ state.current_transcription = req.transcription
        /\ state.current_translation = req.translated
        /\ state.translation_history # <<>>
        /\ state.translation_history[1] =
              HistoryItem(req.transcription, req.translated,
                          current_source_lang, current_target_lang)
        /\ status = "connected"
        /\ ret.status = "connected"
        /\ ret.tts_file = NoFile

\* gTTS raised in save(): the call has returned connected, without an
\* artifact, and the session holds the new translation.
C19_Witness ==
    /\ AudioReturned
    /\ req.tts = "save_failed"
    /\ ret.status = "connected"
    /\ ret.tts_file = NoFile
    /\ state # req.pre
    /\ state.current_translation = req.translated

\* C20: when the ASR model raises, speech_to_text returns "" and the request
\* ends connected, having called ASR only: nothing is translated.
C20_AsrFailureNoOp ==
    (AudioReturned /\ req.asr_failed) =>
        /\ req.transcription = <<>>
        /\ req.stages = <<"asr">>
        /\ req.failed = "none"
        /\ ret.status = "connected"
        /\ status = "connected"

\* The ASR model raised, in a session that has translated before.
C20_Witness ==
    /\ AudioReturned
    /\ req.asr_failed
    /\ ret.status = "connected"
    /\ req.pre.translation_history # <<>>
    /\ state = req.pre

(***************************************************************************)
(* Order of the stages of one request.                                     *)
(***************************************************************************)
\* The stages a process_audio_file call has invoked so far are a prefix of
\* ASR, translation, synthesis; translation was given a transcript that is
\* not blank; synthesis was given the translation of this request, after
\* the session dict had got the transcript and the translation.
C29_Order ==
    /\ req.stages \in { <<>>, <<"asr">>, <<"asr", "translate">>,
                        <<"asr", "translate", "tts">> }
    /\ Len(req.stages) >= 2 =>
          /\ req.transcription # <<>>
          /\ Strip(req.transcription) # <<>>
    /\ Len(req.stages) = 3 =>
          /\ req.used.text = req.translated
          /\ state.current_transcription = req.transcription
          /\ state.current_translation = req.translated
          /\ state.translation_history # <<>>
          /\ state.translation_history[1].translated = req.used.text

\* The session dict changes only between the return of translation and the
\* call of synthesis, and takes this request's transcript and translation.
C29_Step ==
    (session_state' # session_state) =>
        /\ req.stages = <<"asr", "translate">>
        /\ req'.stages = req.stages
        /\ req.failed = "none"
        /\ session_state'[session].current_transcription = req.transcription
        /\ session_state'[session].current_translation = req.translated

\* C29: within one process_audio_file request ASR, translation and synthesis
\* run in this order, each at most once: translation only after ASR returned
\* a transcript that is not empty, the update of the session fields and the
\* history only after translation returned, synthesis only after that and
\* on the translated text of the same request.
C29_StageOrder == []C29_Order /\ [][C29_Step]_vars

\* A request that went through the three stages, its translation a string
\* other than its transcript.
C29_Witness ==
    /\ AudioReturned
    /\ req.stages = <<"asr", "translate", "tts">>
    /\ req.used.text = req.translated
    /\ req.translated # req.transcription
    /\ state.current_translation = req.used.text
    /\ req.pre.current_translation # req.used.text

(***************************************************************************)
(* process_video_file.                                                     *)
(***************************************************************************)
VideoReturned == pc = "v_ret"

\* C21 as stated: when the process_audio_file call that process_video_file
\* made returned the error status, process_video_file returns the error
\* status and a failure message, and no success.
C21_DelegatedFailureReported ==
    (VideoReturned /\ req.delegated = "error") =>
        /\ ret.status = "error"
        /\ ret.msg = "video_error"

\* C22 as stated: when process_video_file returns after it created the
\* temporary extracted-audio file, that file no longer exists, whether the
\* extraction failed, the delegated processing failed or all went well.
C22_ExtractedAudioRemoved ==
    (VideoReturned /\ req.audio_path # NoFile) => req.audio_path \notin files

(***************************************************************************)
(* change_languages.                                                       *)
(***************************************************************************)
\* The step is a direct change_languages call (each call flips the tick).
LanguagesChanged == lcall' # lcall

\* A name some table of model.py has, in either case.
Supported(name) == NllbCode(Lower(name)) # "none"

\* C23: change_languages(source, target) sets the processor's and the shared
\* translator's source and target fields to the values given and leaves the
\* session's transcript, translation and history and the tracked artifact
\* (and the files) as they were.
C23_Step ==
    LanguagesChanged =>
        /\ current_source_lang' = lcall'.source_lang
        /\ current_target_lang' = lcall'.target_lang
        /\ translator_source_lang' = lcall'.source_lang
        /\ translator_target_lang' = lcall'.target_lang
        /\ session_state' = session_state
        /\ last_tts_file' = last_tts_file
        /\ files' = files

C23_ChangeLanguagesFrame == [][C23_Step]_vars

\* change_languages was called after a request had left a transcript, a
\* history item made under another source language, and a tracked artifact.
C23_Witness ==
    /\ pc = "idle"
    /\ lcall.called
    /\ translator_source_lang = lcall.source_lang
    /\ current_target_lang = lcall.target_lang
    /\ state.current_transcription # <<>>
    /\ Len(state.translation_history) > 0
    /\ state.translation_history[1].source_lang # lcall.source_lang
    /\ last_tts_file # NoFile
    /\ last_tts_file \in files

\* C24 as stated: a change_languages call given a name that is no supported
\* language is rejected with the error status, and the source and target
\* fields of the processor and of the shared translator stay as they were.
C24_Step ==
    (LanguagesChanged
        /\ ~(Supported(lcall'.source_lang) /\ Supported(lcall'.target_lang)))
    => /\ lcall'.status = "error"
       /\ UNCHANGED <<translator_source_lang, translator_target_lang,
                      current_source_lang, current_target_lang>>

C24_InvalidNamesRejected == [][C24_Step]_vars

\* What later requests derive from the configured languages: the ASR variant
\* and hint, the translation codes, the voice code and the cache key of a
\* text.
Derived(src, tgt) ==
    [asr |-> AsrSelect(src), src_code |-> SrcCode(src), tgt_code |-> TgtCode(tgt),
     voice |-> GetLanguageCode(tgt), key |-> CacheKey(<<"a">>, src, tgt)]

\* C25 as stated: a change_languages call leaves the four fields, and what
\* later requests derive from them, as the call with the same names in lower
\* case leaves them.
C25_Step ==
    LanguagesChanged =>
        LET lower == ChangeLanguages(Lower(lcall'.source_lang),
                                     Lower(lcall'.target_lang))
        IN  /\ translator_source_lang' = lower.translator_source_lang
            /\ translator_target_lang' = lower.translator_target_lang
            /\ current_source_lang' = lower.current_source_lang
            /\ current_target_lang' = lower.current_target_lang
            /\ Derived(translator_source_lang', translator_target_lang')
                 = Derived(lower.translator_source_lang,
                           lower.translator_target_lang)

C25_CaseInsensitive == [][C25_Step]_vars

(***************************************************************************)
(* Language resolution.                                                    *)
(***************************************************************************)
\* C26: speech_to_text runs the fast variant exactly when the source
\* language is english and the stronger one otherwise, and gives the model
\* a language hint exactly when the source language is english or hindi:
\* its own code; every other language runs the stronger variant unhinted.
C26_AsrSelection ==
    ("asr" \in { req.stages[i] : i \in 1..Len(req.stages) }) =>
        LET lang == Lower(req.used.asr)
        IN  /\ req.asr.model \in {"tiny", "medium"}
            /\ req.asr.model = "tiny" <=> lang = english
            /\ req.asr.hint # "none" <=> lang \in {english, hindi}
            /\ lang = english => req.asr.hint = "en"
            /\ lang = hindi => req.asr.hint = "hi"

\* A request in hindi has run the stronger variant with the hint hi.
C26_Witness ==
    /\ AudioReturned
    /\ req.used.asr = hindi
    /\ req.asr = [model |-> "medium", hint |-> "hi"]
    /\ req.transcription # <<>>

\* Each supported language with its own translation code and voice code.
OwnCodes ==
    { <<english, "eng_Latn", "en">>, <<hindi, "hin_Deva", "hi">>,
      <<bengali, "ben_Beng", "bn">>, <<tamil, "tam_Taml", "ta">>,
      <<telugu, "tel_Telu", "te">>, <<marathi, "mar_Deva", "mr">>,
      <<gujarati, "guj_Gujr", "gu">>, <<kannada, "kan_Knda", "kn">>,
      <<malayalam, "mal_Mlym", "ml">>, <<punjabi, "pan_Guru", "pa">>,
      <<odia, "ory_Orya", "or">>, <<assamese, "asm_Beng", "as">>,
      <<urdu, "urd_Arab", "ur">> }

Known(name) == \E r \in OwnCodes : r[1] = Lower(name)

CodesOf(name) == CHOOSE r \in OwnCodes : r[1] = Lower(name)

\* process_audio_file has returned from a request that went through ASR,
\* translation and synthesis without an error.
Resolved ==
    /\ AudioReturned
    /\ req.stages = <<"asr", "translate", "tts">>
    /\ ret.status = "connected"

\* What holds of a resolved request whatever the default of the target's
\* translation code is.
ResolvedAsNamed ==
    /\ Known(req.used.source_lang) =>
          req.translated[1] = CodesOf(req.used.source_lang)[2]
    /\ Known(req.used.target_lang) =>
          /\ req.translated[2] = CodesOf(req.used.target_lang)[2]
          /\ req.used.voice = CodesOf(req.used.target_lang)[3]
    /\ ~Known(req.used.source_lang) =>
          /\ req.asr = [model |-> "medium", hint |-> "none"]
          /\ req.translated[1] = "eng_Latn"
    /\ ~Known(req.used.target_lang) => req.used.voice = "hi"

\* C27 as stated: an unknown name never fails and resolves to the stronger
\* ASR variant without hint, to English's translation code, whether the
\* name is the source or the target, and to Hindi's voice code; a supported
\* name resolves to its own codes.
C27_Original ==
    Resolved =>
        /\ ResolvedAsNamed
        /\ ~Known(req.used.target_lang) => req.translated[2] = "eng_Latn"

\* C27 as amended: the same, but the translation code of an unknown name is
\* English's code when the name is the source language and Hindi's code when
\* it is the target language.
C27_ResolutionDefaults ==
    Resolved =>
        /\ ResolvedAsNamed
        /\ ~Known(req.used.target_lang) => req.translated[2] = "hin_Deva"

\* A request whose source and target are both a name no table has.
C27_Witness ==
    /\ Resolved
    /\ req.used.source_lang = klingon
    /\ req.used.target_lang = klingon
    /\ req.used.tts = klingon
    /\ req.translated = <<"eng_Latn", "hin_Deva", "a">>
    /\ req.used.voice = "hi"

(***************************************************************************)
(* The shared instance.                                                    *)
(***************************************************************************)
\* C14: however the get_instance calls of the threads interleave, at most
\* one LowLatencyTranslator is constructed, and every call that returns
\* returns that one.
C14_SingleInstance ==
    /\ constructed <= 1
    /\ \A t \in Callers : loader[t].got # 0 => loader[t].got = instance
    /\ \A t, u \in Callers :
          (loader[t].got # 0 /\ loader[u].got # 0) => loader[t].got = loader[u].got

\* Two threads both found no instance at line 30; one built it, the other
\* waited for the lock, found it at line 32, and both returned it.
C14_Witness ==
    \E t, u \in Callers :
        /\ loader[t].path = "built" /\ loader[t].got = 1
        /\ loader[u].path = "waited" /\ loader[u].got = 1

\* Thread t returns from get_instance with the instance.
Receives(t) ==
    /\ loader[t].pc = "return"
    /\ loader'[t].pc = "idle"
    /\ loader'[t].got # 0

\* C31 as stated: whenever a caller receives the instance, no thread is
\* still in the warm-up run of get_instance, and that run has not ended in
\* an exception.
C31_Step ==
    \A t \in Callers :
        Receives(t) =>
            \A u \in Callers :
                /\ loader[u].pc # "warm_up"
                /\ ~(loader[u].path = "built" /\ loader[u].raised)

C31_ReceivedAfterWarmUp == [][C31_Step]_vars

(***************************************************************************)
(* Two sessions.                                                           *)
(***************************************************************************)
\* C13 as stated: the language each service of a request is called with is
\* the one the requesting session had selected when the request started:
\* the source for ASR and translation, the target for translation and
\* synthesis, whatever the other session saves meanwhile.
C13_RequestLanguages ==
    /\ req.used.asr \in {<<>>, req.selected.source_lang}
    /\ req.used.source_lang \in {<<>>, req.selected.source_lang}
    /\ req.used.target_lang \in {<<>>, req.selected.target_lang}
    /\ req.used.tts \in {<<>>, req.selected.target_lang}

\* Session s has a request in flight.
InFlight(s) == session = s /\ pc # "idle"

\* C15 as stated: what a session observes is its own: the languages ui_tick
\* shows it are the ones it saved, and the status it shows is processing
\* only while a request of that session is in flight.
C15_SessionOwnsStatus ==
    \A s \in Sessions :
        /\ UiTick(s).langs = selected_langs[s]
        /\ UiTick(s).status = "processing" => InFlight(s)

\* C16 as stated: the artifact most recently returned to a session is
\* deleted only by a call made for that session.
C16_Step ==
    \A a \in Sessions :
        (tts_output[a] \in files /\ tts_output[a] \notin files') => session' = a

C16_ArtifactOwnedBySession == [][C16_Step]_vars

(***************************************************************************)
(* Concurrent translate_text calls.                                        *)
(***************************************************************************)
\* Thread t has looked the key up and has not yet finished with the cache.
InCache(t) ==
    call[t].pc \in {"read", "set_src", "tokenize", "generate", "insert",
                    "check", "evict"}

\* A popitem ran while the cache held no more than cache_size entries.
EvictedWithinBound ==
    \E t \in Threads : call[t].len_at_pop \in 1..cache_size

\* A hit raised KeyError: the key was evicted between line 86 and line 87.
HitRaised == \E t \in Threads : call[t].raised = "KeyError"

\* C17 as stated: the lookup-insert-evict sequences of concurrent calls do
\* not interleave, so a popitem runs only on a cache that exceeds the
\* bound, every hit returns its entry, and when all calls have returned
\* the cache holds at most cache_size entries.
C17_CacheExclusive ==
    /\ \A t, u \in Threads : (t # u /\ InCache(t)) => ~InCache(u)
    /\ ~EvictedWithinBound
    /\ ~HitRaised
    /\ (\A t \in Threads : call[t].pc = "idle")
          => Len(translation_cache) <= cache_size

(***************************************************************************)
(* The tokenizer shared by concurrent calls.                               *)
(***************************************************************************)
\* C32: every value stored in the cache is the translation of its key's
\* text made with the source and target language codes of that key, however
\* the concurrent translate_text calls interleave.
C32_StoredUnderOwnCodes ==
    \A i \in 1..Len(translation_cache) :
        \A text \in TokenizerTexts, source_lang \in ThreadSourceLangs :
            translation_cache[i].k = CacheKey(text, source_lang, hindi) =>
                /\ translation_cache[i].v[1] = SrcCode(source_lang)
                /\ translation_cache[i].v[2] = TgtCode(hindi)

(***************************************************************************)
(* The translator's languages and the processor's, in sequential use.      *)
(***************************************************************************)
LanguagesAgree ==
    /\ translator_source_lang = current_source_lang
    /\ translator_target_lang = current_target_lang

\* The step of lines 191-195 that puts the new item at the head of the
\* history: the item names the languages the translation call was given.
RecordedAsUsed ==
    (pc = "a_update" /\ pc' # "a_update") =>
        LET item == session_state'[session].translation_history[1]
        IN  /\ item.source_lang = req.used.source_lang
            /\ item.target_lang = req.used.target_lang

\* C33: in sequential use, after any sequence of change_languages,
\* save_languages, process_audio_file and process_video_file calls the shared
\* translator's source_lang and target_lang equal the processor's
\* current_source_lang and current_target_lang, and every item put in the
\* history records the languages its translation was made with.
C33_TranslatorFollowsProcessor ==
    []LanguagesAgree /\ [][RecordedAsUsed]_vars

\* A video request has put its item in the history after change_languages was
\* called directly and save_languages had set the session's radios: the new
\* item and the one before it were made under different source languages.
C33_Witness ==
    /\ lcall.called
    /\ req.handler = "video"
    /\ pc = "v_ret"
    /\ selected_langs["A"] # Languages(english, hindi)
    /\ Len(session_state["A"].translation_history) = 2
    /\ session_state["A"].translation_history[1].source_lang = klingon
    /\ session_state["A"].translation_history[1].source_lang = req.used.source_lang
    /\ session_state["A"].translation_history[2].source_lang = english
    /\ translator_target_lang = Hindi

(***************************************************************************)
(* The session's current texts and the head of its history.                *)
(***************************************************************************)
\* C34: after any sequence of pipeline calls on a session, calls that end in
\* error included, the session's history is empty exactly when its
\* current_transcription is empty, and otherwise the first history item holds
\* the current transcription and the current translation.
C34_HeadIsCurrent ==
    \A s \in Sessions :
        /\ (session_state[s].translation_history = <<>>)
              <=> (session_state[s].current_transcription = <<>>)
        /\ session_state[s].translation_history # <<>> =>
              /\ session_state[s].translation_history[1].original =
                    session_state[s].current_transcription
              /\ session_state[s].translation_history[1].translated =
                    session_state[s].current_translation

\* A request that ended in error after two requests that each put an item in
\* the history, the second with another translation than the first.
C34_Witness ==
    /\ pc = "w_done"
    /\ ret.status = "error"
    /\ req.failed # "none"
    /\ Len(state.translation_history) = 2
    /\ state.translation_history[1].translated #
          state.translation_history[2].translated
    /\ state.current_translation = state.translation_history[1].translated

=============================================================================
